---- MODULE Spec2Model ----
(***************************************************************************)
(* Model of the Roestigraben votation pipeline                             *)
(* (src/roestigraben_pipeline.py): harmonize_communes, then                *)
(* extract_ballot_titles, then create_final_results, run by main().        *)
(*                                                                         *)
(* Tables (pandas DataFrames) are sequences of records, one record per     *)
(* row.  A string is a sequence of one-character strings, so that the      *)
(* regular expression of remove_canton_abbreviations can be applied to it. *)
(* A missing value (NaN) of a text column is the sequence NaN.             *)
(* The external sources read by one run are fixed when the run starts;     *)
(* each is a record [ok, data], ok = FALSE when reading it raises.         *)
(***************************************************************************)
EXTENDS Integers, Sequences, FiniteSets, TLC

VARIABLES
    ic_src,          \* the two line membership files (IC_INPUT_FILES)
    mut_src,         \* response of the mutation service
    geo_src,         \* response of the geo-level service
    canton_src,      \* CANTON_FILE
    trans_src,       \* TRANSLATION_FILE
    titles_src,      \* response of BFS_URL to extract_ballot_titles
    bfs_src,         \* response of BFS_URL to fetch_bfs_results
    pc,              \* position of main() / harmonize_communes()
    intercity_df,    \* harmonize_communes: intercity_df
    mutations_df,    \* harmonize_communes: mutations_df
    mutation_key,    \* harmonize_communes: mutation_key (InitialCode -> FinalCode)
    spatial_df,      \* harmonize_communes: spatial_df
    result_df,       \* harmonize_communes: result_df
    harmonized_file, \* content of HARMONIZED_FILE
    ballots_file,    \* content of BALLOTS_INFO_FILE
    final_file,      \* content of FINAL_OUTPUT_FILE
    written,         \* the output files written by this run
    log,             \* the console output that matters: warnings, errors, audit lines
    final_columns,   \* header of FINAL_OUTPUT_FILE
    success,         \* main: success
    exit_code,       \* exit status of the process, Running until it ends
    \* the backup script (src/roestigraben_pipeline_backup.py), a process of its own
    backup_src,      \* response of BFS_URL to the backup script
    intercity_file,  \* content of INTERCITY_FILE, a harmonized roster of an earlier run
    communes_file,   \* content of OUTPUT_COMMUNES_FILE
    names_file,      \* content of the backup's BALLOTS_INFO_FILE
    profils_file,    \* content of OUTPUT_PROFILS_FILE
    profils_columns, \* header of OUTPUT_PROFILS_FILE
    bwritten,        \* the files written by this run of the backup script
    blog,            \* console output of the backup script
    bpc,             \* position of the backup script
    bexit,           \* exit status of the backup script
    \* one call of remove_canton_abbreviations
    text_in,         \* its argument
    text_out         \* the results of calling it on text_in, then on its result

env == <<ic_src, mut_src, geo_src, canton_src, trans_src, titles_src, bfs_src>>
prog == <<pc, intercity_df, mutations_df, mutation_key, spatial_df, result_df,
          harmonized_file, ballots_file, final_file, final_columns, written, log,
          success, exit_code>>
binput == <<backup_src, intercity_file>>
bprog == <<communes_file, names_file, profils_file, profils_columns, bwritten, blog,
           bpc, bexit>>
strip == <<text_in, text_out>>
vars == <<env, prog, binput, bprog, strip>>

----------------------------------------------------------------------------
(* Bounds of the model: the longest table of each external source. *)
MaxMut == 2
MaxRoster == 2
MaxGeo == 2
MaxTrans == 2
MaxBfs == 2
MaxParts == 3
MaxCalls == 2

(* Program constants. *)
HeadRows == 5

Running == 0 - 1
NaN == <<"NaN">>
(* a missing number: the ballot_id and yes_pct of a row without result *)
NaNNum == 0 - 1
NoFile == <<[absent |-> TRUE]>>

Codes == {1, 2, 3}
Lignes == {"ic1", "ic21"}

(* MutationDate as the service sends it, DD.MM.YYYY, as <<day, month, year>>. *)
D0201 == <<2, 1, 2024>>
D0102 == <<1, 2, 2024>>
D0301 == <<3, 1, 2024>>
Dates == {D0201, D0102, D0301}

NameB == <<"B">>
NameBsfx == <<"B", " ", "(", "B", "E", ")">>
NameL == <<"L">>
NameX == <<"X">>
NameY == <<"Y", " ", "(", "V", "D", ")">>
IsoBE == <<"B", "E">>
IsoVD == <<"V", "D">>
UpperCase == {"A", "B", "C", "D", "E", "F", "G", "H", "I", "J", "K", "L", "M",
              "N", "O", "P", "Q", "R", "S", "T", "U", "V", "W", "X", "Y", "Z"}

----------------------------------------------------------------------------
(* Helpers on sequences. *)

Range(s) == {s[i] : i \in 1..Len(s)}

SeqsUpTo(S, n) == UNION {[1..k -> S] : k \in 0..n}

Min(S) == CHOOSE x \in S : \A y \in S : x <= y
Max(S) == CHOOSE x \in S : \A y \in S : x >= y

RECURSIVE Concat(_)
Concat(ss) == IF ss = <<>> THEN <<>> ELSE Head(ss) \o Concat(Tail(ss))

(* DataFrame.sort_values: the row orders a sort on the key column can give. *)
(* keys[i] is the key of row i; an outcome is a sequence of row numbers.   *)
(* The default kind, quicksort, is not stable: rows with equal keys may    *)
(* come out in any order.                                                  *)
RECURSIVE SortFrom(_, _)
SortFrom(keys, S) ==
    IF S = {} THEN {<<>>}
    ELSE LET m == Min({keys[i] : i \in S})
         IN UNION {{<<i>> \o t : t \in SortFrom(keys, S \ {i})} :
                   i \in {j \in S : keys[j] = m}}

sort_values(keys) == SortFrom(keys, 1..Len(keys))

Permute(rows, p) == [i \in 1..Len(p) |-> rows[p[i]]]

(* DataFrame.drop_duplicates(keep='first') on the key column. *)
drop_duplicates(rows, keys) ==
    LET keep == {i \in 1..Len(rows) : \A j \in 1..(i - 1) : keys[j] # keys[i]}
        RECURSIVE Pick(_)
        Pick(i) == IF i > Len(rows) THEN <<>>
                   ELSE (IF i \in keep THEN <<rows[i]>> ELSE <<>>) \o Pick(i + 1)
    IN Pick(1)

(* DataFrame.head(n) *)
head(rows, n) == SubSeq(rows, 1, IF Len(rows) < n THEN Len(rows) ELSE n)

LogLine(level, msg, rows) == [level |-> level, msg |-> msg, rows |-> rows]

----------------------------------------------------------------------------
(* load_intercity_data: the unified roster of the two line files. *)
LineRows(file, ligne) ==
    [i \in 1..Len(file) |->
        [order_ic |-> file[i].order_ic, GMDNR |-> file[i].GMDNR, ligne |-> ligne]]

load_intercity_data(files) == LineRows(files.ic1, "ic1") \o LineRows(files.ic21, "ic21")

(* A slip: the dates are ordered as the text they are written in (day, then *)
(* month, then year), as sort_values does on the unparsed column.          *)
to_datetime_as_text(d) == d[1] * 1000000 + d[2] * 10000 + d[3]

(* pd.to_datetime(format='mixed', dayfirst=True) of a DD.MM.YYYY date: *)
(* the calendar day, as a number that orders like the date.            *)
to_datetime(d) == d[3] * 10000 + d[2] * 100 + d[1]

(* The value that line 127 stores in the MutationDate column in place of the *)
(* text of the date: a Timestamp, which is not a text.                      *)
Timestamp(d) == <<to_datetime(d)>>

(* create_mutation_key when the rows come out of sort_values in order p. *)
MutationKeyOf(muts, p) ==
    LET sorted == Permute(muts, p)
        inits == {sorted[i].InitialCode : i \in 1..Len(sorted)}
        lastOf(c) == Max({i \in 1..Len(sorted) : sorted[i].InitialCode = c})
    IN [c \in inits |-> sorted[lastOf(c)].TerminalCode]

(* create_mutation_key: the mutation keys the call can return. *)
create_mutation_key(muts) ==
    IF muts = <<>> THEN {<<>>}
    ELSE {MutationKeyOf(muts, p) :
            p \in sort_values([i \in 1..Len(muts) |-> to_datetime(muts[i].MutationDate)])}

(* A slip: the codes that have no mutation are not filled in again. *)
resolve_no_fillna(key, code) == IF code \in DOMAIN key THEN key[code] ELSE 0

(* A slip: the mutation key is followed from mutation to mutation. *)
resolve_chained(key, code) ==
    IF code \notin DOMAIN key THEN code
    ELSE IF key[code] \in DOMAIN key THEN key[key[code]] ELSE key[code]

(* merge(how='left') with the mutation key, then FinalCode.fillna(GMDNR). *)
resolve(key, code) == IF code \in DOMAIN key THEN key[code] ELSE code

merge_mutations(roster, key) ==
    [i \in 1..Len(roster) |->
        [order_ic |-> roster[i].order_ic, ligne |-> roster[i].ligne,
         GMDNR |-> resolve(key, roster[i].GMDNR)]]

(* get_geolevel's column selection, then the left merge with canton_iso2 *)
(* and the selection of CODE_OFS, Name_fr, iso2.                        *)
merge_canton(geo, canton) ==
    Concat([i \in 1..Len(geo) |->
        LET m == SelectSeq(canton, LAMBDA r : r.order = geo[i].HR_HGDE_HIST_L1)
        IN IF m = <<>>
           THEN <<[CODE_OFS |-> geo[i].CODE_OFS, Name_fr |-> geo[i].Name_fr, iso2 |-> NaN]>>
           ELSE [j \in 1..Len(m) |->
                    [CODE_OFS |-> geo[i].CODE_OFS, Name_fr |-> geo[i].Name_fr,
                     iso2 |-> m[j].iso2]]])

(* A slip: the roster is merged with the geographic data by an inner join. *)
merge_geo_inner(rows, spatial) ==
    Concat([i \in 1..Len(rows) |->
        LET m == SelectSeq(spatial, LAMBDA r : r.CODE_OFS = rows[i].GMDNR)
        IN [j \in 1..Len(m) |->
               [order_ic |-> rows[i].order_ic, ligne |-> rows[i].ligne,
                GMDNR |-> rows[i].GMDNR, Name_fr |-> m[j].Name_fr,
                iso2 |-> m[j].iso2]]])

(* The left merge of the resolved roster with the geographic data. *)
merge_geo(rows, spatial) ==
    Concat([i \in 1..Len(rows) |->
        LET m == SelectSeq(spatial, LAMBDA r : r.CODE_OFS = rows[i].GMDNR)
        IN IF m = <<>>
           THEN <<[order_ic |-> rows[i].order_ic, ligne |-> rows[i].ligne,
                   GMDNR |-> rows[i].GMDNR, Name_fr |-> NaN, iso2 |-> NaN]>>
           ELSE [j \in 1..Len(m) |->
                    [order_ic |-> rows[i].order_ic, ligne |-> rows[i].ligne,
                     GMDNR |-> rows[i].GMDNR, Name_fr |-> m[j].Name_fr,
                     iso2 |-> m[j].iso2]]])

(* A slip: drop_duplicates without the sort keeps the first row of the table. *)
dedup_unsorted(rows) ==
    {drop_duplicates(rows, [i \in 1..Len(rows) |-> <<rows[i].GMDNR, rows[i].ligne>>])}

(* sort_values('order_ic').drop_duplicates(['GMDNR', 'ligne'], keep='first'): *)
(* the tables it can return.  The sort leaves rows of equal order_ic in any   *)
(* order, and drop_duplicates keeps of every (GMDNR, ligne) the first row of  *)
(* the sorted table: that is some row of the smallest order_ic of its group,  *)
(* and the kept rows stand in the order of the sort.                          *)
DedupKey(row) == <<row.GMDNR, row.ligne>>

dedup(rows) ==
    LET idx == 1..Len(rows)
        groups == {DedupKey(rows[i]) : i \in idx}
        lowest(g) == Min({rows[i].order_ic : i \in {j \in idx : DedupKey(rows[j]) = g}})
        firsts(g) == {i \in idx : DedupKey(rows[i]) = g /\ rows[i].order_ic = lowest(g)}
        RECURSIVE Kept(_)
        Kept(G) == IF G = {} THEN {{}}
                   ELSE LET g == CHOOSE x \in G : TRUE
                        IN UNION {{{i} \cup K : K \in Kept(G \ {g})} : i \in firsts(g)}
        order_ic == [i \in idx |-> rows[i].order_ic]
    IN UNION {{Permute(rows, p) : p \in SortFrom(order_ic, K)} : K \in Kept(groups)}

(* The same tables, computed as the code does: every order of the sort, then *)
(* the first row of every key.                                               *)
dedup_by_sort(rows) ==
    {LET sorted == Permute(rows, p)
     IN drop_duplicates(sorted, [i \in 1..Len(sorted) |-> DedupKey(sorted[i])]) :
        p \in sort_values([i \in 1..Len(rows) |-> rows[i].order_ic])}

(* remove_canton_abbreviations: re.sub(r' \([A-Z]{2}\)$', '', text).  In a *)
(* Python pattern $ matches at the end of the string and also just before  *)
(* a newline that ends the string.                                         *)
IsCantonSuffix(s) ==
    /\ Len(s) = 5
    /\ s[1] = " " /\ s[2] = "(" /\ s[3] \in UpperCase /\ s[4] \in UpperCase /\ s[5] = ")"

remove_canton_abbreviations(text) ==
    LET n == Len(text)
    IN IF text = NaN THEN text
       ELSE IF n >= 5 /\ IsCantonSuffix(SubSeq(text, n - 4, n))
            THEN SubSeq(text, 1, n - 5)
       ELSE IF n >= 6 /\ text[n] = "\n" /\ IsCantonSuffix(SubSeq(text, n - 5, n - 1))
            THEN SubSeq(text, 1, n - 6) \o <<"\n">>
       ELSE text

fillna(value, other) == IF value = NaN THEN other ELSE value

NamedRow(row, fr, de) ==
    [order_ic |-> row.order_ic, ligne |-> row.ligne, GMDNR |-> row.GMDNR,
     Name_fr |-> row.Name_fr, iso2 |-> row.iso2,
     fr |-> remove_canton_abbreviations(fr), de |-> remove_canton_abbreviations(de)]

(* A slip: a translation entry with one language missing is not used at all. *)
apply_translations_whole_entry(rows, translation) ==
    Concat([i \in 1..Len(rows) |->
        LET m == SelectSeq(translation, LAMBDA r : r.polg_name = rows[i].Name_fr)
        IN IF m = <<>>
           THEN <<NamedRow(rows[i], rows[i].Name_fr, rows[i].Name_fr)>>
           ELSE [j \in 1..Len(m) |->
                    IF m[j].fr = NaN \/ m[j].de = NaN
                    THEN NamedRow(rows[i], rows[i].Name_fr, rows[i].Name_fr)
                    ELSE NamedRow(rows[i], m[j].fr, m[j].de)]])

(* A slip: without translation only the French name falls back to Name_fr. *)
apply_translations_fr_only(rows, translation) ==
    [i \in 1..Len(rows) |-> NamedRow(rows[i], rows[i].Name_fr, NaN)]

(* Steps 8 to 10 of harmonize_communes before the final sort: the left merge *)
(* with the translation table on Name_fr = polg_name (a missing Name_fr      *)
(* matches a missing polg_name), the fallback to Name_fr, the removal of the *)
(* canton abbreviations and the selection of the final columns.              *)
apply_translations(rows, translation) ==
    IF translation # <<>>
    THEN Concat([i \in 1..Len(rows) |->
            LET m == SelectSeq(translation, LAMBDA r : r.polg_name = rows[i].Name_fr)
            IN IF m = <<>>
               THEN <<NamedRow(rows[i], rows[i].Name_fr, rows[i].Name_fr)>>
               ELSE [j \in 1..Len(m) |->
                        NamedRow(rows[i], fillna(m[j].fr, rows[i].Name_fr),
                                 fillna(m[j].de, rows[i].Name_fr))]])
    ELSE [i \in 1..Len(rows) |-> NamedRow(rows[i], rows[i].Name_fr, rows[i].Name_fr)]

(* 'ic1' sorts before 'ic21'. *)
LigneRank(ligne) == IF ligne = "ic1" THEN 0 ELSE 1

MaxOrder(rows) == Max({0} \cup {rows[i].order_ic : i \in 1..Len(rows)})

(* sort_values(['ligne', 'order_ic']): the tables it can return. *)
sort_ligne_order(rows) ==
    {Permute(rows, p) :
        p \in sort_values([i \in 1..Len(rows) |->
                LigneRank(rows[i].ligne) * (MaxOrder(rows) + 1) + rows[i].order_ic])}

(* harmonize_communes as a function of what its sources return: the *)
(* harmonized rosters it can write.                                 *)
harmonize(roster, muts, geo, canton, translation) ==
    UNION {UNION {sort_ligne_order(apply_translations(d, translation)) :
                    d \in dedup(merge_geo(merge_mutations(roster, k),
                                          merge_canton(geo, canton)))} :
           k \in create_mutation_key(muts)}

----------------------------------------------------------------------------
(* DataFrame.to_csv then pd.read_csv of a text value: a missing value is *)
(* written as the empty field, and the empty field is read as missing.   *)
read_csv_text(value) == IF value = <<>> THEN NaN ELSE value

read_harmonized(file) ==
    [i \in 1..Len(file) |->
        [order_ic |-> file[i].order_ic, ligne |-> file[i].ligne, GMDNR |-> file[i].GMDNR,
         Name_fr |-> read_csv_text(file[i].Name_fr), iso2 |-> read_csv_text(file[i].iso2),
         fr |-> read_csv_text(file[i].fr), de |-> read_csv_text(file[i].de)]]

(* fetch_bfs_results returns None when the request fails, and also when the *)
(* response holds no commune result (df['id'] raises KeyError).             *)
FetchIsNone(src) == ~src.ok \/ src.data = <<>>

(* final_df['ligne'].map({'ic1': 'ic_1', 'ic21': 'ic_21'}) *)
MapLigne(ligne) == IF ligne = "ic1" THEN "ic_1" ELSE IF ligne = "ic21" THEN "ic_21" ELSE "NaN"

(* A slip: the final columns are not selected, and stay in the order of the *)
(* merge.                                                                  *)
FinalColumnsOfMerge == <<"order", "ligne", "GMDNR", "GMDNAME", "KTN_abr", "GMDNAME_FR",
                         "GMDNAME_DE", "id", "ballot_id", "yes_pct">>

(* final_columns of create_final_results *)
FinalColumns == <<"GMDNR", "order", "ligne", "GMDNAME", "GMDNAME_FR", "GMDNAME_DE",
                  "KTN_abr", "ballot_id", "yes_pct">>

FinalRow(h, ligne, ballot_id, yes_pct) ==
    [GMDNR |-> h.GMDNR, order |-> h.order_ic, ligne |-> ligne,
     GMDNAME |-> h.Name_fr, GMDNAME_FR |-> h.fr, GMDNAME_DE |-> h.de,
     KTN_abr |-> h.iso2, ballot_id |-> ballot_id, yes_pct |-> yes_pct]

(* A slip: the results are merged by a left join, which keeps the roster *)
(* rows that have no result.                                            *)
merge_results_left(harmonized, results) ==
    Concat([i \in 1..Len(harmonized) |->
        LET m == SelectSeq(results, LAMBDA r : r.id = harmonized[i].GMDNR)
            h == harmonized[i]
        IN IF m = <<>>
           THEN <<FinalRow(h, MapLigne(h.ligne), NaNNum, NaNNum)>>
           ELSE [j \in 1..Len(m) |->
                    FinalRow(h, MapLigne(h.ligne), m[j].ballot_id, m[j].yes_pct)]])

(* The inner merge on GMDNR = id, the renaming and the final column selection. *)
merge_results(harmonized, results) ==
    Concat([i \in 1..Len(harmonized) |->
        LET m == SelectSeq(results, LAMBDA r : r.id = harmonized[i].GMDNR)
            h == harmonized[i]
        IN [j \in 1..Len(m) |->
                FinalRow(h, MapLigne(h.ligne), m[j].ballot_id, m[j].yes_pct)]])

MaxOrderFinal(rows) == Max({0} \cup {rows[i].order : i \in 1..Len(rows)})

(* 'ic_1' sorts before 'ic_21'. *)
LigneRankFinal(ligne) == IF ligne = "ic_1" THEN 0 ELSE 1

(* sort_values(['ballot_id', 'ligne', 'order']): the tables it can return. *)
sort_final(rows) ==
    LET w == MaxOrderFinal(rows) + 1
    IN {Permute(rows, p) :
          p \in sort_values([i \in 1..Len(rows) |->
                  rows[i].ballot_id * 2 * w + LigneRankFinal(rows[i].ligne) * w
                  + rows[i].order])}

(* Step 4 of create_final_results: one line for each harmonized row whose *)
(* code has no result.                                                    *)
missing_lines(harmonized, results) ==
    LET with == {results[j].id : j \in 1..Len(results)}
        missing_df == SelectSeq(harmonized, LAMBDA r : r.GMDNR \notin with)
    IN [i \in 1..Len(missing_df) |-> LogLine("warning", "no_result", <<missing_df[i]>>)]

(* extract_ballot_titles: the French and German titles, sorted by ballot and *)
(* language ('DE' before 'FR').                                             *)
LangueRank(langue) == IF langue = "DE" THEN 0 ELSE 1

ballot_titles(data) ==
    LET kept == SelectSeq(data, LAMBDA t : t.langKey \in {"fr", "de"})
        info == [i \in 1..Len(kept) |->
                    [ballot_id |-> kept[i].ballot_id,
                     langue |-> IF kept[i].langKey = "fr" THEN "FR" ELSE "DE",
                     title_long |-> kept[i].text, title_short |-> ""]]
    IN {Permute(info, p) :
          p \in sort_values([i \in 1..Len(info) |->
                  info[i].ballot_id * 2 + LangueRank(info[i].langue)])}

----------------------------------------------------------------------------
(* The backup script, src/roestigraben_pipeline_backup.py. *)

(* extract_commune_results: one row per ballot and commune of the response; *)
(* of its columns the script later reads id, ballot_id and yes_pct.         *)
extract_commune_results(data) ==
    [i \in 1..Len(data.results) |->
        [id |-> data.results[i].id, ballot_id |-> data.results[i].ballot_id,
         yes_pct |-> data.results[i].yes_pct]]

(* extract_ballot_names: the French and German titles, sorted by ballot and *)
(* language.                                                                *)
extract_ballot_names(data) == ballot_titles(data.titles)

(* columns_order of process_votation_results *)
columns_order == <<"GMDNR", "order", "ligne", "GMDNAME", "GMDNAME_FR", "GMDNAME_DE",
                   "KTN_abr", "ballot_id", "yes_pct">>

(* A slip: the profile table is merged by an inner join. *)
merge_profils_inner(intercity, results) ==
    Concat([i \in 1..Len(intercity) |->
        LET m == SelectSeq(results, LAMBDA r : r.id = intercity[i].GMDNR)
            h == intercity[i]
        IN [j \in 1..Len(m) |-> FinalRow(h, h.ligne, m[j].ballot_id, m[j].yes_pct)]])

(* process_votation_results: the left merge on GMDNR = id, the renaming and *)
(* the column selection.  The line label stays as the roster file has it.   *)
merge_profils(intercity, results) ==
    Concat([i \in 1..Len(intercity) |->
        LET m == SelectSeq(results, LAMBDA r : r.id = intercity[i].GMDNR)
            h == intercity[i]
        IN IF m = <<>>
           THEN <<FinalRow(h, h.ligne, NaNNum, NaNNum)>>
           ELSE [j \in 1..Len(m) |-> FinalRow(h, h.ligne, m[j].ballot_id, m[j].yes_pct)]])

(* sort_values(['ballot_id', 'ligne', 'order']) of the profile table: the *)
(* tables it can return.  Rows without ballot_id come last.               *)
sort_profils(rows) ==
    LET w == MaxOrderFinal(rows) + 1
        top == Max({0} \cup {rows[i].ballot_id : i \in 1..Len(rows)}) + 1
        ballot(i) == IF rows[i].ballot_id = NaNNum THEN top ELSE rows[i].ballot_id
    IN {Permute(rows, p) :
          p \in sort_values([i \in 1..Len(rows) |->
                  ballot(i) * 2 * w + LigneRank(rows[i].ligne) * w + rows[i].order])}

----------------------------------------------------------------------------
(* The sources a run can meet. *)

Ok(data) == [ok |-> TRUE, data |-> data]
Fail == [ok |-> FALSE, data |-> <<>>]

LineFile(codes) == [i \in 1..Len(codes) |-> [order_ic |-> i, GMDNR |-> codes[i]]]

(* The same line file with its rows written from the last position to the first. *)
LineFileDescending(codes) ==
    [i \in 1..Len(codes) |->
        [order_ic |-> Len(codes) + 1 - i, GMDNR |-> codes[Len(codes) + 1 - i]]]

MutRows == [InitialCode : {1, 2}, TerminalCode : Codes, MutationDate : Dates]
GeoRows == [CODE_OFS : {1, 2}, Name_fr : {NameB, NameBsfx}, HR_HGDE_HIST_L1 : {1}]
TransRows == [polg_name : {NameBsfx, NameL}, fr : {NameX, NaN}, de : {NameY, NaN}]

RosterDefault == [ic1 |-> LineFile(<<1, 2, 3>>), ic21 |-> LineFile(<<2>>)]
RosterSmall == [ic1 |-> LineFile(<<1, 2>>), ic21 |-> LineFile(<<3>>)]
MutDefault == <<[InitialCode |-> 2, TerminalCode |-> 1, MutationDate |-> D0201]>>
GeoDefault == <<[CODE_OFS |-> 1, Name_fr |-> NameBsfx, HR_HGDE_HIST_L1 |-> 1],
                [CODE_OFS |-> 2, Name_fr |-> NameL, HR_HGDE_HIST_L1 |-> 2]>>
CantonDefault == <<[order |-> 1, iso2 |-> IsoBE], [order |-> 2, iso2 |-> IsoVD]>>
CantonDouble == <<[order |-> 1, iso2 |-> IsoBE], [order |-> 1, iso2 |-> IsoVD]>>
TransDefault == <<[polg_name |-> NameL, fr |-> NameX, de |-> NaN]>>
TitlesDefault == <<[ballot_id |-> 1, langKey |-> "fr", text |-> "oui"],
                   [ballot_id |-> 1, langKey |-> "it", text |-> "si"],
                   [ballot_id |-> 1, langKey |-> "de", text |-> "ja"]>>
BfsDefault == <<[id |-> 1, ballot_id |-> 1, yes_pct |-> 40],
                [id |-> 1, ballot_id |-> 2, yes_pct |-> 60],
                [id |-> 3, ballot_id |-> 1, yes_pct |-> 55]>>

BfsRows == [id : {1, 3}, ballot_id : {1, 2}, yes_pct : {40, 60}]
RosterShared == [ic1 |-> LineFile(<<1, 2>>), ic21 |-> LineFile(<<1>>)]
BfsSmall == <<[id |-> 1, ballot_id |-> 1, yes_pct |-> 40]>>

(* The state of main() at position p, before any of its steps. *)
ProgAt(p) ==
    /\ pc = p
    /\ intercity_df = <<>>
    /\ mutations_df = <<>>
    /\ mutation_key = <<>>
    /\ spatial_df = <<>>
    /\ result_df = <<>>
    /\ harmonized_file = NoFile
    /\ ballots_file = NoFile
    /\ final_file = NoFile
    /\ final_columns = <<>>
    /\ written = {}
    /\ log = <<>>
    /\ success = FALSE
    /\ exit_code = Running

InitProg == ProgAt("load_intercity")

(* The state of the backup script at position p, before any of its steps. *)
BackupAt(p) ==
    /\ names_file = NoFile
    /\ profils_file = NoFile
    /\ profils_columns = <<>>
    /\ bwritten = {}
    /\ blog = <<>>
    /\ bpc = p
    /\ bexit = Running

BackupOff ==
    /\ BackupAt("off")
    /\ backup_src = Fail
    /\ intercity_file = NoFile
    /\ communes_file = NoFile

TextOff ==
    /\ text_in = <<>>
    /\ text_out = <<>>

(* Every mutation list, on a roster that holds every code. *)
InitResolve ==
    /\ ic_src = Ok(RosterDefault)
    /\ mut_src \in {Ok(m) : m \in SeqsUpTo(MutRows, MaxMut)}
    /\ geo_src = Ok(GeoDefault)
    /\ canton_src = Ok(CantonDefault)
    /\ trans_src = Ok(TransDefault)
    /\ titles_src = Ok(TitlesDefault)
    /\ bfs_src = Ok(BfsDefault)

(* Every roster and every geo-level table, with and without a merger. *)
InitDedup ==
    /\ ic_src \in {Ok([ic1 |-> f, ic21 |-> LineFile(b)]) :
                      f \in {LineFile(a) : a \in SeqsUpTo(Codes, MaxRoster)}
                             \cup {LineFileDescending(a) : a \in SeqsUpTo(Codes, MaxRoster)},
                      b \in {<<>>, <<1>>}}
    /\ mut_src \in {Ok(<<>>), Ok(MutDefault)}
    /\ geo_src \in {Ok(g) : g \in SeqsUpTo(GeoRows, MaxGeo)}
    /\ canton_src = Ok(CantonDefault)
    /\ trans_src = Ok(TransDefault)
    /\ titles_src = Ok(TitlesDefault)
    /\ bfs_src = Ok(BfsDefault)

(* Every translation table. *)
InitNaming ==
    /\ ic_src \in {Ok(RosterSmall), Ok(RosterShared)}
    /\ mut_src \in {Ok(<<>>), Ok(MutDefault)}
    /\ geo_src = Ok(GeoDefault)
    /\ canton_src = Ok(CantonDefault)
    /\ trans_src \in {Ok(t) : t \in SeqsUpTo(TransRows, MaxTrans)}
    /\ titles_src = Ok(TitlesDefault)
    /\ bfs_src = Ok(BfsSmall)

(* Every table of ballot results. *)
InitResults ==
    /\ ic_src \in {Ok(RosterSmall), Ok(RosterShared)}
    /\ mut_src \in {Ok(<<>>), Ok(MutDefault)}
    /\ geo_src = Ok(GeoDefault)
    /\ canton_src = Ok(CantonDefault)
    /\ trans_src = Ok(TransDefault)
    /\ titles_src = Ok(TitlesDefault)
    /\ bfs_src \in {Ok(r) : r \in SeqsUpTo(BfsRows, MaxBfs)}

(* Every combination of failing, empty and filled sources. *)
InitFailures ==
    /\ ic_src \in {Fail, Ok(RosterDefault)}
    /\ mut_src \in {Fail, Ok(<<>>), Ok(MutDefault)}
    /\ geo_src \in {Fail, Ok(GeoDefault)}
    /\ canton_src \in {Fail, Ok(CantonDefault), Ok(CantonDouble)}
    /\ trans_src \in {Fail, Ok(<<>>), Ok(TransDefault)}
    /\ titles_src \in {Fail, Ok(<<>>), Ok(TitlesDefault)}
    /\ bfs_src \in {Fail, Ok(<<>>), Ok(BfsDefault)}

Init ==
    /\ InitProg
    /\ InitResolve \/ InitDedup \/ InitNaming \/ InitResults \/ InitFailures
    /\ BackupOff
    /\ TextOff

----------------------------------------------------------------------------
(* The run of main(), one action per step of the script. *)

(* sys.exit(1) after printing an error *)
Abort(msg) ==
    /\ log' = Append(log, LogLine("error", msg, <<>>))
    /\ exit_code' = 1
    /\ pc' = "exited"

(* harmonize_communes step 1: load_intercity_data *)
LoadIntercity ==
    /\ pc = "load_intercity"
    /\ IF ic_src.ok
       THEN /\ intercity_df' = load_intercity_data(ic_src.data)
            /\ pc' = "get_mutations"
            /\ UNCHANGED <<log, exit_code>>
       ELSE /\ Abort("intercity")
            /\ UNCHANGED intercity_df
    /\ UNCHANGED <<env, mutations_df, mutation_key, spatial_df, result_df,
                   harmonized_file, ballots_file, final_file, written, success>>
    /\ UNCHANGED <<final_columns, binput, bprog, strip>>

(* A slip: a failure of the mutation service ends the run. *)
GetMutationsFatal ==
    /\ pc = "get_mutations"
    /\ IF mut_src.ok
       THEN /\ mutations_df' = mut_src.data
            /\ pc' = "create_mutation_key"
            /\ UNCHANGED <<log, exit_code>>
       ELSE /\ Abort("mutations")
            /\ UNCHANGED mutations_df
    /\ UNCHANGED <<env, intercity_df, mutation_key, spatial_df, result_df,
                   harmonized_file, ballots_file, final_file, written, success>>
    /\ UNCHANGED <<final_columns, binput, bprog, strip>>

(* harmonize_communes step 2: get_communes_mutations_bfs *)
GetMutations ==
    /\ pc = "get_mutations"
    /\ IF mut_src.ok
       THEN /\ mutations_df' = mut_src.data
            /\ UNCHANGED log
       ELSE /\ mutations_df' = <<>>
            /\ log' = Append(log, LogLine("warning", "mutations", <<>>))
    /\ pc' = "create_mutation_key"
    /\ UNCHANGED <<env, intercity_df, mutation_key, spatial_df, result_df,
                   harmonized_file, ballots_file, final_file, written, success, exit_code>>
    /\ UNCHANGED <<final_columns, binput, bprog, strip>>

(* harmonize_communes step 2: create_mutation_key, which also replaces the *)
(* MutationDate column of the table it is given by the parsed dates.       *)
CreateMutationKey ==
    /\ pc = "create_mutation_key"
    /\ mutation_key' \in create_mutation_key(mutations_df)
    /\ mutations_df' = [i \in 1..Len(mutations_df) |->
                          [mutations_df[i] EXCEPT !.MutationDate = Timestamp(@)]]
    /\ pc' = "merge_mutations"
    /\ UNCHANGED <<env, intercity_df, spatial_df, result_df,
                   harmonized_file, ballots_file, final_file, written, log, success,
                   exit_code>>
    /\ UNCHANGED <<final_columns, binput, bprog, strip>>

(* harmonize_communes step 3 *)
MergeMutations ==
    /\ pc = "merge_mutations"
    /\ result_df' = merge_mutations(intercity_df, mutation_key)
    /\ pc' = "get_geolevel"
    /\ UNCHANGED <<env, intercity_df, mutations_df, mutation_key, spatial_df,
                   harmonized_file, ballots_file, final_file, written, log, success,
                   exit_code>>
    /\ UNCHANGED <<final_columns, binput, bprog, strip>>

(* A slip: a failure of the geo-level service is met with an empty table. *)
GetGeolevelDegraded ==
    /\ pc = "get_geolevel"
    /\ IF geo_src.ok
       THEN /\ spatial_df' = geo_src.data
            /\ UNCHANGED log
       ELSE /\ spatial_df' = <<>>
            /\ log' = Append(log, LogLine("warning", "geolevel", <<>>))
    /\ pc' = "load_canton"
    /\ UNCHANGED <<env, intercity_df, mutations_df, mutation_key, result_df,
                   harmonized_file, ballots_file, final_file, written, success, exit_code>>
    /\ UNCHANGED <<final_columns, binput, bprog, strip>>

(* harmonize_communes step 4: get_geolevel *)
GetGeolevel ==
    /\ pc = "get_geolevel"
    /\ IF geo_src.ok
       THEN /\ spatial_df' = geo_src.data
            /\ pc' = "load_canton"
            /\ UNCHANGED <<log, exit_code>>
       ELSE /\ Abort("geolevel")
            /\ UNCHANGED spatial_df
    /\ UNCHANGED <<env, intercity_df, mutations_df, mutation_key, result_df,
                   harmonized_file, ballots_file, final_file, written, success>>
    /\ UNCHANGED <<final_columns, binput, bprog, strip>>

(* harmonize_communes step 5: load_canton_iso2 and the merge with it *)
LoadCanton ==
    /\ pc = "load_canton"
    /\ IF canton_src.ok
       THEN /\ spatial_df' = merge_canton(spatial_df, canton_src.data)
            /\ pc' = "merge_geo"
            /\ UNCHANGED <<log, exit_code>>
       ELSE /\ Abort("canton")
            /\ UNCHANGED spatial_df
    /\ UNCHANGED <<env, intercity_df, mutations_df, mutation_key, result_df,
                   harmonized_file, ballots_file, final_file, written, success>>
    /\ UNCHANGED <<final_columns, binput, bprog, strip>>

(* harmonize_communes step 6 *)
MergeGeo ==
    /\ pc = "merge_geo"
    /\ result_df' = merge_geo(result_df, spatial_df)
    /\ pc' = "dedup"
    /\ UNCHANGED <<env, intercity_df, mutations_df, mutation_key, spatial_df,
                   harmonized_file, ballots_file, final_file, written, log, success,
                   exit_code>>
    /\ UNCHANGED <<final_columns, binput, bprog, strip>>

(* harmonize_communes step 7 *)
Dedup ==
    /\ pc = "dedup"
    /\ result_df' \in dedup(result_df)
    /\ pc' = "naming"
    /\ UNCHANGED <<env, intercity_df, mutations_df, mutation_key, spatial_df,
                   harmonized_file, ballots_file, final_file, written, log, success,
                   exit_code>>
    /\ UNCHANGED <<final_columns, binput, bprog, strip>>

(* harmonize_communes steps 8 to 11: load_translation_table, the names, the *)
(* final sort, the harmonized file and the preview of its first rows.       *)
Naming ==
    /\ pc = "naming"
    /\ LET translation_df == IF trans_src.ok THEN trans_src.data ELSE <<>>
           warned == IF trans_src.ok THEN log
                     ELSE Append(log, LogLine("warning", "translations", <<>>))
       IN /\ result_df' \in sort_ligne_order(apply_translations(result_df, translation_df))
          /\ log' = Append(warned, LogLine("preview", "head", head(result_df', HeadRows)))
    /\ harmonized_file' = result_df'
    /\ written' = written \cup {"harmonized"}
    /\ pc' = "extract_titles"
    /\ UNCHANGED <<env, intercity_df, mutations_df, mutation_key, spatial_df,
                   ballots_file, final_file, success, exit_code>>
    /\ UNCHANGED <<final_columns, binput, bprog, strip>>

(* main step 2: extract_ballot_titles; any exception makes it return None *)
ExtractTitles ==
    /\ pc = "extract_titles"
    /\ IF titles_src.ok /\ \E i \in 1..Len(titles_src.data) :
                              titles_src.data[i].langKey \in {"fr", "de"}
       THEN /\ ballots_file' \in ballot_titles(titles_src.data)
            /\ written' = written \cup {"ballots"}
            /\ UNCHANGED log
       ELSE /\ log' = Append(log, LogLine("error", "titles", <<>>))
            /\ UNCHANGED <<ballots_file, written>>
    /\ pc' = "create_final"
    /\ UNCHANGED <<env, intercity_df, mutations_df, mutation_key, spatial_df, result_df,
                   harmonized_file, final_file, success, exit_code>>
    /\ UNCHANGED <<final_columns, binput, bprog, strip>>

(* main step 3: create_final_results *)
CreateFinal ==
    /\ pc = "create_final"
    /\ IF FetchIsNone(bfs_src)
       THEN /\ log' = Append(log, LogLine("error", "bfs", <<>>))
            /\ success' = FALSE
            /\ UNCHANGED <<final_file, final_columns, written>>
       ELSE LET harmonized_df == read_harmonized(harmonized_file)
            IN /\ final_file' \in sort_final(merge_results(harmonized_df, bfs_src.data))
               /\ final_columns' = FinalColumns
               /\ log' = log \o missing_lines(harmonized_df, bfs_src.data)
               /\ written' = written \cup {"final"}
               /\ success' = TRUE
    /\ pc' = "main_end"
    /\ UNCHANGED <<env, intercity_df, mutations_df, mutation_key, spatial_df, result_df,
                   harmonized_file, ballots_file, exit_code>>
    /\ UNCHANGED <<binput, bprog, strip>>

(* main: the report on success, and the normal end of the process *)
MainEnd ==
    /\ pc = "main_end"
    /\ log' = Append(log, LogLine(IF success THEN "info" ELSE "error", "pipeline", <<>>))
    /\ exit_code' = 0
    /\ pc' = "exited"
    /\ UNCHANGED <<env, intercity_df, mutations_df, mutation_key, spatial_df, result_df,
                   harmonized_file, ballots_file, final_file, written, success>>
    /\ UNCHANGED <<final_columns, binput, bprog, strip>>

Next ==
    \/ LoadIntercity
    \/ GetMutations
    \/ CreateMutationKey
    \/ MergeMutations
    \/ GetGeolevel
    \/ LoadCanton
    \/ MergeGeo
    \/ Dedup
    \/ Naming
    \/ ExtractTitles
    \/ CreateFinal
    \/ MainEnd

Spec == Init /\ [][Next]_vars

----------------------------------------------------------------------------
(* The run of the backup script, one action per step of its __main__ block. *)

(* An exception that nothing catches ends the process with status 1. *)
BackupCrash(msg) ==
    /\ blog' = Append(blog, LogLine("error", msg, <<>>))
    /\ bexit' = 1
    /\ bpc' = "exited"

(* fetch_bfs_results and the test of its result *)
BackupFetch ==
    /\ bpc = "fetch"
    /\ IF backup_src.ok
       THEN /\ bpc' = "write_csv"
            /\ UNCHANGED <<blog, bexit>>
       ELSE /\ blog' = Append(blog, LogLine("error", "fetch", <<>>))
            /\ bexit' = 0
            /\ bpc' = "exited"
    /\ UNCHANGED <<communes_file, names_file, profils_file, profils_columns, bwritten>>
    /\ UNCHANGED <<env, prog, binput, strip>>

(* extract_commune_results and write_csv, which writes nothing when there *)
(* is no commune result.                                                  *)
BackupWriteCsv ==
    /\ bpc = "write_csv"
    /\ LET commune_results == extract_commune_results(backup_src.data)
       IN IF commune_results = <<>>
          THEN /\ blog' = Append(blog, LogLine("info", "no_data", <<>>))
               /\ UNCHANGED <<communes_file, bwritten>>
          ELSE /\ communes_file' = commune_results
               /\ bwritten' = bwritten \cup {"communes"}
               /\ UNCHANGED blog
    /\ bpc' = "ballot_names"
    /\ UNCHANGED <<names_file, profils_file, profils_columns, bexit>>
    /\ UNCHANGED <<env, prog, binput, strip>>

(* extract_ballot_names; sort_values raises KeyError on a table without rows *)
BackupBallotNames ==
    /\ bpc = "ballot_names"
    /\ IF \E i \in 1..Len(backup_src.data.titles) :
              backup_src.data.titles[i].langKey \in {"fr", "de"}
       THEN /\ names_file' \in extract_ballot_names(backup_src.data)
            /\ bwritten' = bwritten \cup {"names"}
            /\ bpc' = "process"
            /\ UNCHANGED <<blog, bexit>>
       ELSE /\ BackupCrash("ballot_names")
            /\ UNCHANGED <<names_file, bwritten>>
    /\ UNCHANGED <<communes_file, profils_file, profils_columns>>
    /\ UNCHANGED <<env, prog, binput, strip>>

(* process_votation_results, and the normal end of the script *)
BackupProcess ==
    /\ bpc = "process"
    /\ IF communes_file = NoFile \/ intercity_file = NoFile
       THEN /\ BackupCrash("read_csv")
            /\ UNCHANGED <<profils_file, profils_columns, bwritten>>
       ELSE /\ profils_file' \in sort_profils(merge_profils(read_harmonized(intercity_file),
                                                             communes_file))
            /\ profils_columns' = columns_order
            /\ bwritten' = bwritten \cup {"profils"}
            /\ blog' = Append(blog, LogLine("info", "profils", <<>>))
            /\ bexit' = 0
            /\ bpc' = "exited"
    /\ UNCHANGED <<communes_file, names_file>>
    /\ UNCHANGED <<env, prog, binput, strip>>

NextBackup ==
    \/ BackupFetch
    \/ BackupWriteCsv
    \/ BackupBallotNames
    \/ BackupProcess

(* The commune results an earlier run of the backup script left on disk. *)
StaleCommunes == <<[id |-> 3, ballot_id |-> 1, yes_pct |-> 55]>>

(* The harmonized rosters an earlier run of harmonize_communes can have written. *)
HarmonizedFiles ==
    UNION {harmonize(load_intercity_data(r), m, GeoDefault, CantonDefault, TransDefault) :
             r \in {RosterSmall, RosterShared}, m \in {<<>>, MutDefault}}

InitBackup ==
    /\ BackupAt("fetch")
    /\ backup_src \in {Fail} \cup {Ok([titles |-> t, results |-> r]) :
                                      t \in {<<>>, TitlesDefault},
                                      r \in SeqsUpTo(BfsRows, MaxBfs)}
    /\ intercity_file \in {NoFile} \cup HarmonizedFiles
    /\ communes_file \in {NoFile, StaleCommunes}

(* Sources that all answer. *)
EnvDefault ==
    /\ ic_src = Ok(RosterDefault)
    /\ mut_src = Ok(<<>>)
    /\ geo_src = Ok(GeoDefault)
    /\ canton_src = Ok(CantonDefault)
    /\ trans_src = Ok(TransDefault)
    /\ titles_src = Ok(TitlesDefault)
    /\ bfs_src = Ok(BfsDefault)

(* Two ballots with a result for municipality 1. *)
BfsTwo == <<[id |-> 1, ballot_id |-> 1, yes_pct |-> 40],
            [id |-> 1, ballot_id |-> 2, yes_pct |-> 60]>>

(* Sources that give main() a roster of which every municipality has a *)
(* result for every ballot.                                            *)
EnvShared ==
    /\ ic_src = Ok(RosterShared)
    /\ mut_src = Ok(MutDefault)
    /\ geo_src = Ok(GeoDefault)
    /\ canton_src = Ok(CantonDefault)
    /\ trans_src = Ok(TransDefault)
    /\ titles_src = Ok(TitlesDefault)
    /\ bfs_src = Ok(BfsTwo)

InitMain == InitProg /\ (EnvDefault \/ EnvShared)

InitAll == InitMain /\ InitBackup /\ TextOff

(* main() and the backup script, two processes that share no file. *)
NextAll == Next \/ NextBackup

SpecAll == InitAll /\ [][NextAll]_vars

----------------------------------------------------------------------------
(* remove_canton_abbreviations on its own: the texts it is called on are *)
(* built from up to MaxParts pieces.                                     *)

Parts == {<<"Z">>, <<"x">>, <<"\n">>,
          <<" ", "(", "Z", "H", ")">>, <<" ", "(", "z", "h", ")">>,
          <<" ", "(", "Z", ")">>, <<" ", "(", "Z", "H", "H", ")">>,
          <<"(", "Z", "H", ")">>}

Texts == {Concat(ps) : ps \in SeqsUpTo(Parts, MaxParts)}

InitText ==
    /\ text_in \in Texts
    /\ text_out = <<>>
    /\ ProgAt("off")
    /\ EnvDefault
    /\ BackupOff

(* One call: on text_in first, then on the result of the call before. *)
RemoveCantonAbbreviations ==
    /\ Len(text_out) < MaxCalls
    /\ text_out' = Append(text_out, remove_canton_abbreviations(
                        IF text_out = <<>> THEN text_in ELSE text_out[Len(text_out)]))
    /\ UNCHANGED <<text_in, env, prog, binput, bprog>>

NextText == RemoveCantonAbbreviations

SpecText == InitText /\ [][NextText]_vars

----------------------------------------------------------------------------
(* What the mutation service returned, the empty table when it failed. *)
Muts == IF mut_src.ok THEN mut_src.data ELSE <<>>

InitialCodes == {Muts[j].InitialCode : j \in 1..Len(Muts)}

MutsOf(code) == {j \in 1..Len(Muts) : Muts[j].InitialCode = code}

(* The calendar order of two dates written DD.MM.YYYY. *)
DateBefore(a, b) ==
    \/ a[3] < b[3]
    \/ a[3] = b[3] /\ a[2] < b[2]
    \/ a[3] = b[3] /\ a[2] = b[2] /\ a[1] < b[1]

DistinctDates(code) ==
    \A i, j \in MutsOf(code) : i # j => Muts[i].MutationDate # Muts[j].MutationDate

(* The mutation of code that no other mutation of code is dated after. *)
LatestOf(code) ==
    CHOOSE j \in MutsOf(code) :
        \A i \in MutsOf(code) : i = j \/ DateBefore(Muts[i].MutationDate, Muts[j].MutationDate)

Perms(n) == {p \in [1..n -> 1..n] : \A i, j \in 1..n : i # j => p[i] # p[j]}

(* The roster has been merged with the mutation key: row i of result_df is *)
(* row i of intercity_df with its code resolved.                           *)
Resolved == pc = "get_geolevel"

(* C1: an initial code whose mutations have pairwise distinct dates is mapped *)
(* by the mutation key, and so are the roster rows with that code, to the     *)
(* terminal code of its mutation of the latest date; every permutation of the *)
(* mutation list gives the same mapping for it.                               *)
C1_LastMutationWins ==
    Resolved =>
        \A c \in InitialCodes :
            DistinctDates(c) =>
                /\ mutation_key[c] = Muts[LatestOf(c)].TerminalCode
                /\ \A i \in 1..Len(intercity_df) :
                       intercity_df[i].GMDNR = c =>
                           result_df[i].GMDNR = Muts[LatestOf(c)].TerminalCode
                /\ \A q \in Perms(Len(Muts)) :
                       \A k \in create_mutation_key(Permute(Muts, q)) :
                           k[c] = mutation_key[c]

(* A roster code with two mutations of distinct dates, the later one first in *)
(* the list and to another terminal code, has been resolved.                  *)
C1_Witness ==
    /\ Resolved
    /\ \E i \in 1..Len(intercity_df) :
           LET c == intercity_df[i].GMDNR
           IN /\ Cardinality(MutsOf(c)) >= 2
              /\ DistinctDates(c)
              /\ LatestOf(c) # Max(MutsOf(c))
              /\ Muts[LatestOf(c)].TerminalCode # Muts[Max(MutsOf(c))].TerminalCode
              /\ result_df[i].GMDNR = Muts[LatestOf(c)].TerminalCode

(* C2: a roster code that is the initial code of no mutation resolves to *)
(* itself; with an empty mutation list every roster row keeps its code.  *)
C2_AbsentCodeIsIdentity ==
    Resolved =>
        /\ Len(result_df) = Len(intercity_df)
        /\ \A i \in 1..Len(intercity_df) :
               intercity_df[i].GMDNR \notin InitialCodes =>
                   result_df[i].GMDNR = intercity_df[i].GMDNR
        /\ Muts = <<>> =>
               \A i \in 1..Len(intercity_df) :
                   result_df[i].GMDNR = intercity_df[i].GMDNR

(* With mutations on the list, one roster row kept its code because no *)
(* mutation starts from it, while another row changed its code.        *)
C2_Witness ==
    /\ Resolved
    /\ Muts # <<>>
    /\ \E i, j \in 1..Len(intercity_df) :
           /\ intercity_df[i].GMDNR \notin InitialCodes
           /\ result_df[i].GMDNR = intercity_df[i].GMDNR
           /\ result_df[j].GMDNR # intercity_df[j].GMDNR

(* C3: resolution is one lookup: the resolved code of a roster row whose code *)
(* has mutations is the terminal code of one of the mutations of that very    *)
(* code, also when that terminal code is the initial code of other mutations. *)
C3_SingleLookup ==
    Resolved =>
        \A i \in 1..Len(intercity_df) :
            LET c == intercity_df[i].GMDNR
            IN c \in InitialCodes =>
                   result_df[i].GMDNR \in {Muts[j].TerminalCode : j \in MutsOf(c)}

(* A chain A -> B, B -> C of distinct codes: the roster row of A stands at B. *)
C3_Witness ==
    /\ Resolved
    /\ \E i \in 1..Len(intercity_df) :
           LET a == intercity_df[i].GMDNR
               b == result_df[i].GMDNR
           IN /\ a \in InitialCodes
              /\ b # a
              /\ b \in InitialCodes
              /\ mutation_key[b] \notin {a, b}
              /\ \A j \in MutsOf(a) : Muts[j].TerminalCode = b

----------------------------------------------------------------------------
(* harmonize_communes has written the harmonized roster. *)
Harmonized == "harmonized" \in written

Roster == load_intercity_data(ic_src.data)

(* The resolved code of row i of the roster. *)
ResolvedCode(i) == resolve(mutation_key, intercity_df[i].GMDNR)

GeoCodes == {geo_src.data[k].CODE_OFS : k \in 1..Len(geo_src.data)}

GeoNames(code) ==
    {geo_src.data[k].Name_fr : k \in {n \in 1..Len(geo_src.data) : geo_src.data[n].CODE_OFS = code}}

(* The rows of a table that stand for line l and code c. *)
RowsOf(table, l, c) == {n \in 1..Len(table) : table[n].ligne = l /\ table[n].GMDNR = c}

(* The roster rows of line l that resolve to code c. *)
EntriesOf(l, c) ==
    {i \in 1..Len(intercity_df) : intercity_df[i].ligne = l /\ ResolvedCode(i) = c}

(* C4: the harmonized roster holds at most one row for each line and *)
(* resolved code.                                                    *)
C4_OneRowPerLineAndCode ==
    Harmonized =>
        \A i, j \in 1..Len(harmonized_file) :
            (/\ harmonized_file[i].ligne = harmonized_file[j].ligne
             /\ harmonized_file[i].GMDNR = harmonized_file[j].GMDNR) => i = j

(* C5: of the roster rows of one line that resolve to the same code, the   *)
(* deduplication keeps one row, the row of the smallest order, with a geo  *)
(* name of the final code; the harmonized roster holds that roster row and *)
(* none of the rows of a larger order.                                     *)
C5_SmallestOrderKept ==
    /\ pc = "naming" =>
           \A l \in Lignes, c \in Codes :
               EntriesOf(l, c) # {} =>
                   /\ Cardinality(RowsOf(result_df, l, c)) = 1
                   /\ \A n \in RowsOf(result_df, l, c) :
                          /\ result_df[n].order_ic =
                                 Min({intercity_df[i].order_ic : i \in EntriesOf(l, c)})
                          /\ result_df[n].Name_fr \in
                                 (IF c \in GeoCodes THEN GeoNames(c) ELSE {NaN})
    /\ Harmonized =>
           \A l \in Lignes, c \in Codes :
               EntriesOf(l, c) # {} =>
                   /\ RowsOf(harmonized_file, l, c) # {}
                   /\ \A n \in RowsOf(harmonized_file, l, c) :
                          /\ harmonized_file[n].order_ic =
                                 Min({intercity_df[i].order_ic : i \in EntriesOf(l, c)})
                          /\ harmonized_file[n].Name_fr \in
                                 (IF c \in GeoCodes THEN GeoNames(c) ELSE {NaN})

(* Two rows of line ic1 of different codes resolve to the same code, the row *)
(* of the larger order standing first in the line file, and the harmonized   *)
(* roster holds the row of the smaller order only.                           *)
C5_Witness ==
    /\ Harmonized
    /\ \E i, j \in 1..Len(intercity_df) :
           /\ i < j
           /\ intercity_df[i].ligne = "ic1" /\ intercity_df[j].ligne = "ic1"
           /\ intercity_df[i].GMDNR # intercity_df[j].GMDNR
           /\ intercity_df[i].order_ic > intercity_df[j].order_ic
           /\ ResolvedCode(i) = ResolvedCode(j)
           /\ ResolvedCode(i) \in GeoCodes
           /\ \A n \in RowsOf(harmonized_file, "ic1", ResolvedCode(i)) :
                  harmonized_file[n].order_ic = intercity_df[j].order_ic
           /\ RowsOf(harmonized_file, "ic1", ResolvedCode(i)) # {}

(* C6: a run whose ballot results cannot be fetched ends with exit code 1, *)
(* and a run ends with exit code 0 only when every stage succeeded.        *)
C6_BallotFailureExitsOne ==
    pc = "exited" =>
        /\ (ic_src.ok /\ geo_src.ok /\ canton_src.ok /\ ~bfs_src.ok) => exit_code = 1
        /\ exit_code = 0 => (success /\ written = {"harmonized", "ballots", "final"})

(* C7: when a line file or the geo-level source cannot be loaded the run *)
(* ends there with exit code 1: no later stage runs and no output file   *)
(* is written.                                                           *)
C7_CriticalSourceAborts ==
    /\ ~ic_src.ok =>
           /\ pc \in {"load_intercity", "exited"}
           /\ pc = "exited" => exit_code = 1
           /\ written = {}
           /\ harmonized_file = NoFile /\ ballots_file = NoFile /\ final_file = NoFile
    /\ (ic_src.ok /\ ~geo_src.ok) =>
           /\ pc \in {"load_intercity", "get_mutations", "create_mutation_key",
                      "merge_mutations", "get_geolevel", "exited"}
           /\ pc = "exited" => exit_code = 1
           /\ written = {}
           /\ harmonized_file = NoFile /\ ballots_file = NoFile /\ final_file = NoFile

(* The geo-level source failed after the roster was resolved, and the run *)
(* has ended.                                                             *)
C7_Witness ==
    /\ ic_src.ok /\ ~geo_src.ok
    /\ pc = "exited"
    /\ exit_code = 1
    /\ Len(result_df) > 0
    /\ written = {}

HasWarning(msg) == \E n \in 1..Len(log) : log[n].level = "warning" /\ log[n].msg = msg

(* C8: a run whose mutation source or translation source fails logs a   *)
(* warning and goes on to the end, and the harmonized roster it writes  *)
(* is a roster of the run in which that source returns the empty table  *)
(* (every code kept as it is, when it is the mutation source).          *)
C8_OptionalSourceDegrades ==
    (pc = "exited" /\ ic_src.ok /\ geo_src.ok /\ canton_src.ok) =>
        /\ Harmonized /\ exit_code = 0
        /\ ~mut_src.ok =>
               /\ HasWarning("mutations")
               /\ harmonized_file \in
                      harmonize(Roster, <<>>, geo_src.data, canton_src.data,
                                IF trans_src.ok THEN trans_src.data ELSE <<>>)
               /\ \A i \in 1..Len(Roster) :
                      RowsOf(harmonized_file, Roster[i].ligne, Roster[i].GMDNR) # {}
        /\ ~trans_src.ok =>
               /\ HasWarning("translations")
               /\ harmonized_file \in
                      harmonize(Roster, Muts, geo_src.data, canton_src.data, <<>>)

(* Both optional sources failed and the run ended with a harmonized roster. *)
C8_Witness ==
    /\ pc = "exited"
    /\ ~mut_src.ok /\ ~trans_src.ok
    /\ Harmonized
    /\ Len(harmonized_file) > 0

(* C9: the geographic join removes no roster row, and a resolved code that *)
(* the geo-level snapshot does not hold stays in the harmonized roster,    *)
(* with a null canonical name and a null canton.                           *)
C9_UnmatchedCodeKept ==
    /\ pc = "dedup" =>
           \A i \in 1..Len(intercity_df) :
               \E n \in RowsOf(result_df, intercity_df[i].ligne, ResolvedCode(i)) :
                   result_df[n].order_ic = intercity_df[i].order_ic
    /\ Harmonized =>
           \A i \in 1..Len(intercity_df) :
               ResolvedCode(i) \notin GeoCodes =>
                   /\ RowsOf(harmonized_file, intercity_df[i].ligne, ResolvedCode(i)) # {}
                   /\ \A n \in RowsOf(harmonized_file, intercity_df[i].ligne, ResolvedCode(i)) :
                          /\ harmonized_file[n].Name_fr = NaN
                          /\ harmonized_file[n].iso2 = NaN

(* A roster row whose resolved code differs from its code and is not in the *)
(* snapshot stands in the harmonized roster.                                *)
C9_Witness ==
    /\ Harmonized
    /\ \E i \in 1..Len(intercity_df) :
           /\ ResolvedCode(i) \notin GeoCodes
           /\ ResolvedCode(i) # intercity_df[i].GMDNR
           /\ GeoCodes # {}
           /\ \E n \in RowsOf(harmonized_file, intercity_df[i].ligne, ResolvedCode(i)) :
                  harmonized_file[n].Name_fr = NaN

(* C10: for every row of the harmonized roster whose code the geo-level  *)
(* snapshot does not hold, the log has a warning that names the code and *)
(* the line.                                                             *)
C10_UnmatchedCodeWarned ==
    Harmonized =>
        \A n \in 1..Len(harmonized_file) :
            harmonized_file[n].GMDNR \notin GeoCodes =>
                \E k \in 1..Len(log) :
                    /\ log[k].level = "warning"
                    /\ \E r \in 1..Len(log[k].rows) :
                           /\ log[k].rows[r].GMDNR = harmonized_file[n].GMDNR
                           /\ log[k].rows[r].ligne = harmonized_file[n].ligne

----------------------------------------------------------------------------
(* The final table of main(). *)

FinalWritten == "final" \in written

ResultIds(results) == {results[j].id : j \in 1..Len(results)}

(* no two rows of the roster table share line and code *)
UniqueLineCode(table) ==
    \A m, n \in 1..Len(table) :
        (table[m].ligne = table[n].ligne /\ table[m].GMDNR = table[n].GMDNR) => m = n

(* no two rows of the result table share municipality and ballot *)
UniqueIdBallot(results) ==
    \A m, n \in 1..Len(results) :
        (results[m].id = results[n].id /\ results[m].ballot_id = results[n].ballot_id)
            => m = n

(* the pairs of a roster row and a result row of the same municipality *)
Matches(roster, results) ==
    {<<i, j>> \in (1..Len(roster)) \X (1..Len(results)) : roster[i].GMDNR = results[j].id}

(* C11: in create_final_results, when no two rows of the harmonized roster   *)
(* share line and code and no two results share municipality and ballot,    *)
(* the final table holds exactly one row for each roster row and each       *)
(* result of its municipality, with the yes percentage of that result, no   *)
(* other row, and no row of a municipality without result.                  *)
C11_InnerJoinExact ==
    (FinalWritten /\ UniqueLineCode(harmonized_file) /\ UniqueIdBallot(bfs_src.data)) =>
        /\ \A ij \in Matches(harmonized_file, bfs_src.data) :
               LET h == harmonized_file[ij[1]]
                   r == bfs_src.data[ij[2]]
                   hits == {k \in 1..Len(final_file) :
                               /\ final_file[k].ligne = MapLigne(h.ligne)
                               /\ final_file[k].GMDNR = h.GMDNR
                               /\ final_file[k].ballot_id = r.ballot_id}
               IN /\ Cardinality(hits) = 1
                  /\ \A k \in hits : final_file[k].yes_pct = r.yes_pct
        /\ Len(final_file) = Cardinality(Matches(harmonized_file, bfs_src.data))
        /\ \A k \in 1..Len(final_file) : final_file[k].GMDNR \in ResultIds(bfs_src.data)

(* A roster of two lines that share a municipality, of which one municipality *)
(* has results on two ballots and another has none.                           *)
C11_Witness ==
    /\ FinalWritten
    /\ UniqueLineCode(harmonized_file)
    /\ UniqueIdBallot(bfs_src.data)
    /\ \E n \in 1..Len(harmonized_file) :
           harmonized_file[n].GMDNR \notin ResultIds(bfs_src.data)
    /\ \E m, n \in 1..Len(final_file) :
           /\ final_file[m].GMDNR = final_file[n].GMDNR
           /\ final_file[m].ligne = final_file[n].ligne
           /\ final_file[m].ballot_id # final_file[n].ballot_id
    /\ \E m, n \in 1..Len(final_file) :
           /\ final_file[m].GMDNR = final_file[n].GMDNR
           /\ final_file[m].ligne # final_file[n].ligne

----------------------------------------------------------------------------
(* The profile table of the backup script. *)

ProfilsWritten == "profils" \in bwritten

(* the roster process_votation_results reads *)
BackupRoster == read_harmonized(intercity_file)

(* the rows of the profile table for row i of that roster *)
ProfilRows(i) ==
    {k \in 1..Len(profils_file) :
        /\ profils_file[k].ligne = BackupRoster[i].ligne
        /\ profils_file[k].GMDNR = BackupRoster[i].GMDNR}

(* C12: in process_votation_results every roster row whose municipality has *)
(* no result in the commune-results table stands in the profile table as    *)
(* one row with a missing ballot and a missing yes percentage, and every    *)
(* roster row whose municipality has results stands in it once per ballot   *)
(* with that ballot's yes percentage (the results holding no municipality   *)
(* twice for one ballot), and the profile table has no other row.           *)
C12_LeftJoinKeepsAll ==
    (ProfilsWritten /\ UniqueLineCode(BackupRoster)) =>
        /\ \A i \in 1..Len(BackupRoster) :
               BackupRoster[i].GMDNR \notin ResultIds(communes_file) =>
                   /\ Cardinality(ProfilRows(i)) = 1
                   /\ \A k \in ProfilRows(i) :
                          /\ profils_file[k].yes_pct = NaNNum
                          /\ profils_file[k].ballot_id = NaNNum
        /\ UniqueIdBallot(communes_file) =>
               \A ij \in Matches(BackupRoster, communes_file) :
                   LET r == communes_file[ij[2]]
                       hits == {k \in ProfilRows(ij[1]) :
                                   profils_file[k].ballot_id = r.ballot_id}
                   IN /\ Cardinality(hits) = 1
                      /\ \A k \in hits : profils_file[k].yes_pct = r.yes_pct
        /\ Len(profils_file) =
               Cardinality(Matches(BackupRoster, communes_file))
               + Cardinality({i \in 1..Len(BackupRoster) :
                                 BackupRoster[i].GMDNR \notin ResultIds(communes_file)})

(* A profile table with a row without result and a municipality with two *)
(* ballots.                                                              *)
C12_Witness ==
    /\ ProfilsWritten
    /\ UniqueLineCode(BackupRoster)
    /\ UniqueIdBallot(communes_file)
    /\ \E k \in 1..Len(profils_file) : profils_file[k].yes_pct = NaNNum
    /\ \E m, n \in 1..Len(profils_file) :
           /\ profils_file[m].GMDNR = profils_file[n].GMDNR
           /\ profils_file[m].ligne = profils_file[n].ligne
           /\ profils_file[m].ballot_id # profils_file[n].ballot_id
           /\ profils_file[m].yes_pct # NaNNum
           /\ profils_file[n].yes_pct # NaNNum

----------------------------------------------------------------------------
(* The audit lines for the roster rows without result. *)

(* line k of a console names row h of a roster: its municipality name, its *)
(* code and its line                                                       *)
NamesRow(line, h) ==
    /\ Len(line.rows) = 1
    /\ line.rows[1].GMDNR = h.GMDNR
    /\ line.rows[1].Name_fr = h.Name_fr
    /\ line.rows[1].ligne = h.ligne

(* create_final_results: every harmonized row that the inner join drops has *)
(* a line of its own in the log.                                            *)
InnerDropsLogged ==
    FinalWritten =>
        LET H == read_harmonized(harmonized_file)
            dropped == {n \in 1..Len(H) : H[n].GMDNR \notin ResultIds(bfs_src.data)}
        IN \E f \in [dropped -> 1..Len(log)] :
               /\ \A m, n \in dropped : m # n => f[m] # f[n]
               /\ \A n \in dropped : NamesRow(log[f[n]], H[n])

(* process_votation_results: every roster row kept without result has a line *)
(* of its own in the console output.                                         *)
LeftNullsLogged ==
    ProfilsWritten =>
        LET kept == {n \in 1..Len(BackupRoster) :
                        BackupRoster[n].GMDNR \notin ResultIds(communes_file)}
        IN \E f \in [kept -> 1..Len(blog)] :
               /\ \A m, n \in kept : m # n => f[m] # f[n]
               /\ \A n \in kept : NamesRow(blog[f[n]], BackupRoster[n])

(* C13: in both join modes every roster row whose municipality has no       *)
(* matching result has an audit line of its own that carries the name and   *)
(* the code of the municipality: in create_final_results for each dropped   *)
(* row, in process_votation_results for each row kept without result.       *)
C13_UnmatchedRowLogged == InnerDropsLogged /\ LeftNullsLogged

----------------------------------------------------------------------------
(* The names without translation. *)

(* load_translation_table returned an empty table: the file holds no row, or *)
(* it could not be read                                                      *)
TranslationEmpty == ~trans_src.ok \/ trans_src.data = <<>>

EndsWithCantonSuffix(s) == Len(s) >= 5 /\ IsCantonSuffix(SubSeq(s, Len(s) - 4, Len(s)))

----------------------------------------------------------------------------
(* remove_canton_abbreviations as a function of its argument. *)

Called == Len(text_out) >= 1

(* C15: remove_canton_abbreviations removes the last five characters of a   *)
(* text that ends with a space, an opening parenthesis, two uppercase       *)
(* letters and a closing parenthesis, and returns every other text as it is *)
(* (the pattern inside the text, lowercase letters, one or three letters).  *)
C15_OnlyAnchoredSuffix ==
    Called =>
        text_out[1] = IF EndsWithCantonSuffix(text_in)
                      THEN SubSeq(text_in, 1, Len(text_in) - 5)
                      ELSE text_in

----------------------------------------------------------------------------
(* The header of the output files. *)

(* C16, as claimed: the final file of main() and the profile file of the    *)
(* backup script have the columns line, resolved code, order, canonical    *)
(* name, French name, German name, canton, ballot, yes percentage, in that *)
(* order.                                                                  *)
C16_LineFirstColumns ==
    LET claimed == <<"ligne", "GMDNR", "order", "GMDNAME", "GMDNAME_FR", "GMDNAME_DE",
                     "KTN_abr", "ballot_id", "yes_pct">>
    IN /\ FinalWritten => final_columns = claimed
       /\ ProfilsWritten => profils_columns = claimed

(* C16, amended: the final file of main() and the profile file of the      *)
(* backup script have the columns resolved code, order, line, canonical    *)
(* name, French name, German name, canton, ballot, yes percentage, in that *)
(* order.                                                                  *)
C16_CodeFirstColumns ==
    LET written_order == <<"GMDNR", "order", "ligne", "GMDNAME", "GMDNAME_FR",
                           "GMDNAME_DE", "KTN_abr", "ballot_id", "yes_pct">>
    IN /\ FinalWritten => final_columns = written_order
       /\ ProfilsWritten => profils_columns = written_order

(* Both scripts have written their output file. *)
C16_Witness ==
    /\ FinalWritten
    /\ ProfilsWritten
    /\ Len(final_file) > 0
    /\ Len(profils_file) > 0
    /\ final_columns = profils_columns

----------------------------------------------------------------------------
(* The tables the stages are given. *)

(* C17: create_mutation_key leaves the mutation table it is given as the *)
(* service returned it, MutationDate values included.                   *)
C17_MutationTableUnchanged ==
    pc = "merge_mutations" => mutations_df = Muts

(* what extract_commune_results gives on the response of this run *)
FetchedCommunes ==
    IF backup_src.ok THEN extract_commune_results(backup_src.data) ELSE <<>>

(* C18: the tables a stage reads are those of the same run: the final table *)
(* of main() is built on the harmonized roster that this run wrote, and the *)
(* profile table of the backup script on the commune results that this run  *)
(* fetched and wrote, never on a file of an earlier run.                    *)
C18_TablesOfThisRun ==
    /\ FinalWritten => Harmonized
    /\ ProfilsWritten =>
           /\ "communes" \in bwritten
           /\ communes_file = FetchedCommunes

(* the mutations of code that no mutation of code is dated after *)
LatestTied(code) ==
    {j \in MutsOf(code) :
        \A i \in MutsOf(code) : ~DateBefore(Muts[j].MutationDate, Muts[i].MutationDate)}

(* C19: an initial code of which several mutations share the latest date is *)
(* mapped to the terminal code of the one of them that stands last in the   *)
(* mutation list.                                                           *)
C19_TieLastInInputWins ==
    Resolved =>
        \A c \in InitialCodes :
            Cardinality(LatestTied(c)) >= 2 =>
                mutation_key[c] = Muts[Max(LatestTied(c))].TerminalCode

----------------------------------------------------------------------------
(* The roster entries in the harmonized roster. *)

(* every roster entry has a row of its line and its resolved code *)
NoRosterEntryLost ==
    Harmonized =>
        \A i \in 1..Len(intercity_df) :
            RowsOf(harmonized_file, intercity_df[i].ligne, ResolvedCode(i)) # {}

(* C20: for every roster entry the harmonized roster holds a row of the same *)
(* line with the resolved code of the entry, whatever the geo-level snapshot *)
(* and the translation table hold; a resolved code that stands in both lines *)
(* has one row in each line.                                                 *)
C20_NoMunicipalityLost ==
    /\ NoRosterEntryLost
    /\ Harmonized =>
           \A i, j \in 1..Len(intercity_df) :
               (ResolvedCode(i) = ResolvedCode(j)
                /\ intercity_df[i].ligne # intercity_df[j].ligne) =>
                   \A l \in Lignes :
                       Cardinality(RowsOf(harmonized_file, l, ResolvedCode(i))) = 1

----------------------------------------------------------------------------
(* The final table of main() and the profile table of the backup script. *)

(* how often row r stands in a table *)
CountOf(table, r) == Cardinality({k \in 1..Len(table) : table[k] = r})

SameRows(a, b) ==
    /\ Len(a) = Len(b)
    /\ \A r \in Range(a) \cup Range(b) : CountOf(a, r) = CountOf(b, r)

(* every municipality of the roster has a result for every ballot *)
FullResults(roster, results) ==
    \A i \in 1..Len(roster) :
        \A b \in {results[j].ballot_id : j \in 1..Len(results)} :
            \E j \in 1..Len(results) :
                results[j].id = roster[i].GMDNR /\ results[j].ballot_id = b

(* both scripts ran on the same harmonized roster and the same results, in *)
(* which every roster municipality has a result for every ballot           *)
SameInputs ==
    /\ FinalWritten
    /\ ProfilsWritten
    /\ read_harmonized(harmonized_file) = BackupRoster
    /\ bfs_src.data = communes_file
    /\ FullResults(BackupRoster, communes_file)

(* C21: on the same harmonized roster and the same ballot results, in which *)
(* every roster municipality has a result for every ballot, the final table *)
(* of main() and the profile table of the backup script hold the same rows  *)
(* with the same values in every column, the line label included.           *)
C21_SameFinalAndProfils ==
    SameInputs => SameRows(final_file, profils_file)

(* the profile table with the line labels mapped as create_final_results *)
(* maps them                                                             *)
ProfilsRelabelled ==
    [k \in 1..Len(profils_file) |->
        [profils_file[k] EXCEPT !.ligne = MapLigne(@)]]

(* with the line labels of the profile table mapped, the two tables agree *)
SameUpToLineLabel == SameInputs => SameRows(final_file, ProfilsRelabelled)

----------------------------------------------------------------------------
(* The names with translation. *)

Translations == IF trans_src.ok THEN trans_src.data ELSE <<>>

(* the translation entries of a canonical name *)
EntriesFor(name) == {t \in 1..Len(Translations) : Translations[t].polg_name = name}

(* the French and German name that entry t gives a row of canonical name *)
(* name: the entry's name where it has one, the canonical name where it  *)
(* has none, each without its trailing canton suffix                     *)
NamesBy(t, name) ==
    [fr |-> remove_canton_abbreviations(
                IF Translations[t].fr = NaN THEN name ELSE Translations[t].fr),
     de |-> remove_canton_abbreviations(
                IF Translations[t].de = NaN THEN name ELSE Translations[t].de)]

(* C22: the fallback is applied per language.  A harmonized row whose       *)
(* canonical name has a translation entry takes from the entry each name    *)
(* that the entry holds and the canonical name for each name that the entry *)
(* lacks; a row whose canonical name has no entry takes the canonical name  *)
(* for both.  (Every name stands without its trailing canton suffix.)       *)
C22_FallbackPerLanguage ==
    Harmonized =>
        \A n \in 1..Len(harmonized_file) :
            LET h == harmonized_file[n]
            IN IF EntriesFor(h.Name_fr) = {}
               THEN /\ h.fr = remove_canton_abbreviations(h.Name_fr)
                    /\ h.de = remove_canton_abbreviations(h.Name_fr)
               ELSE /\ \E t \in EntriesFor(h.Name_fr) :
                           h.fr = NamesBy(t, h.Name_fr).fr /\ h.de = NamesBy(t, h.Name_fr).de
                    /\ \A t \in EntriesFor(h.Name_fr) :
                           \E k \in RowsOf(harmonized_file, h.ligne, h.GMDNR) :
                               /\ harmonized_file[k].fr = NamesBy(t, h.Name_fr).fr
                               /\ harmonized_file[k].de = NamesBy(t, h.Name_fr).de

(* One roster holds a row whose entry has only the French name, a row whose *)
(* entry has only the German name, and a row without entry.                 *)
C22_Witness ==
    /\ Harmonized
    /\ \E n \in 1..Len(harmonized_file) :
           \E t \in EntriesFor(harmonized_file[n].Name_fr) :
               /\ Translations[t].fr # NaN
               /\ Translations[t].de = NaN
               /\ harmonized_file[n].fr = Translations[t].fr
               /\ harmonized_file[n].de = harmonized_file[n].Name_fr
               /\ harmonized_file[n].fr # harmonized_file[n].de
    /\ \E n \in 1..Len(harmonized_file) :
           \E t \in EntriesFor(harmonized_file[n].Name_fr) :
               /\ Translations[t].fr = NaN
               /\ Translations[t].de # NaN
               /\ harmonized_file[n].fr # harmonized_file[n].de
    /\ \E n \in 1..Len(harmonized_file) :
           /\ EntriesFor(harmonized_file[n].Name_fr) = {}
           /\ Translations # <<>>
           /\ harmonized_file[n].fr = harmonized_file[n].de

----------------------------------------------------------------------------
(* remove_canton_abbreviations called on its own result. *)

CalledTwice == Len(text_out) >= 2

(* C23: remove_canton_abbreviations is idempotent: called on its own result *)
(* it returns that result, and so its result, which is what name_fr and     *)
(* name_de of the harmonized roster hold, never ends with a canton suffix.  *)
C23_Idempotent ==
    /\ CalledTwice => text_out[2] = text_out[1]
    /\ Called => ~EndsWithCantonSuffix(text_out[1])

====
